---- MODULE Spec2Model ----
(***************************************************************************)
(* Ordered key/value store of kaifoon/tsinghua_ds: the shared TreeNode     *)
(* (node.rs) and the three engines built on it, BinarySearchTree           *)
(* (binary.rs), AVLTree (avl.rs) and SplayTree (splay.rs).                 *)
(*                                                                         *)
(* Box<TreeNode> is a heap cell: the heap maps a node identity to its      *)
(* fields, an Option<Box<TreeNode>> is an identity or NULL, and a raw      *)
(* *mut TreeNode of an ancestor chain is an identity.  A dropped Box is    *)
(* returned to the allocator together with everything it still owns.       *)
(***************************************************************************)
EXTENDS Integers, Sequences, FiniteSets

\* ------------------------------------------------------------------ bounds
MaxKey == 3
MaxVal == 2
\* keys of the AVL-only specification, which needs trees of three levels
DeepMaxKey == 7
\* keys of the specification of the three engines on larger trees
WideMaxKey == 5
\* TreeNode on its own: trees of at most NodeMaxKey nodes, keys 1..NodeMaxKey
NodeMaxKey == 5
\* HashMap: keys 0..MaxHashKey, values 1..MaxHashVal, with_capacity(0..MaxHashCap)
MaxHashKey == 2
MaxHashVal == 2
MaxHashCap == 3
\* HashMap filled up to its capacity: with_capacity(0..MaxCap), keys 0..MaxCap
MaxCap == 4
\* BinaryHeap and heap_sort: elements 1..MaxElem, at most MaxLen of them
MaxElem == 3
MaxLen == 5
\* LeftistHeap: elements -MaxLeftistElem..MaxLeftistElem, at most
\* MaxLeftistLen of them inserted and not removed
MaxLeftistElem == 1
MaxLeftistLen == 4
\* kmp_match: bytes 1..MaxChar, texts of at most MaxText bytes, patterns of
\* 1..MaxPattern bytes
MaxChar == 2
MaxText == 4
MaxPattern == 3

Keys == 1..MaxKey
Vals == 1..MaxVal
DeepKeys == 1..DeepMaxKey
WideKeys == 1..WideMaxKey
AllKeys == Keys \cup DeepKeys \cup WideKeys
\* one cell for every key a tree can hold
Ids == AllKeys

\* --------------------------------------------------------------- encodings
NULL == 0
None == 0
\* inserted once a remove has been called
NA == <<>>
Engines == {"bst", "avl", "splay"}

FreeCell == [key |-> 0, val |-> 0, height |-> 0, left |-> NULL, right |-> NULL]

VARIABLES engine, heap, root, last, inserted, table, capacity, data

vars == <<engine, heap, root, last, inserted, table, capacity, data>>

Max(a, b) == IF a >= b THEN a ELSE b

Last(s) == s[Len(s)]

Front(s) == SubSeq(s, 1, Len(s) - 1)

\* ------------------------------------------------------------- allocator
IsFree(h, n) == h[n] = FreeCell

\* Box::new: a cell that is not in use
Alloc(h) == CHOOSE n \in Ids : IsFree(h, n) /\ \A m \in Ids : IsFree(h, m) => n <= m

RECURSIVE Nodes(_, _)
\* the cells owned by the subtree whose root is n
Nodes(h, n) ==
    IF n = NULL THEN {}
    ELSE {n} \cup Nodes(h, h[n].left) \cup Nodes(h, h[n].right)

\* drop of a Box<TreeNode>: the cell and all it owns go back to the allocator
DropBox(h, n) ==
    LET dead == Nodes(h, n)
    IN  [m \in Ids |-> IF m \in dead THEN FreeCell ELSE h[m]]

\* ------------------------------------------------------------ node.rs
TreeNode_new(key, val) ==
    [key |-> key, val |-> val, height |-> 1, left |-> NULL, right |-> NULL]

left_height(h, n) == IF h[n].left = NULL THEN 0 ELSE h[h[n].left].height

right_height(h, n) == IF h[n].right = NULL THEN 0 ELSE h[h[n].right].height

\* update_height looking at the left child only
update_height_left_only(h, n) ==
    [h EXCEPT ![n].height = 1 + left_height(h, n)]

update_height(h, n) ==
    [h EXCEPT ![n].height = 1 + Max(left_height(h, n), right_height(h, n))]

balance_factor(h, n) == left_height(h, n) - right_height(h, n)

\* rotate_left relinking the cells without the swap of key and val
rotate_left_no_swap(h, n) ==
    IF h[n].right = NULL THEN h
    ELSE
        LET r  == h[n].right
            h1 == [h EXCEPT ![n].right = h[r].right]
            h2 == [h1 EXCEPT ![r].right = h[r].left, ![r].left = h[n].left, ![n].left = r]
        IN  update_height(update_height(h2, r), n)

\* rotate_left recomputing the height of the node before that of its new left
\* child
rotate_left_height_first(h, n) ==
    IF h[n].right = NULL THEN h
    ELSE
        LET r  == h[n].right
            h1 == [h EXCEPT ![n].right = h[r].right,
                            ![n].key = h[r].key, ![n].val = h[r].val,
                            ![r].key = h[n].key, ![r].val = h[n].val]
            h2 == [h1 EXCEPT ![r].right = h[r].left, ![r].left = h[n].left, ![n].left = r]
        IN  update_height(update_height(h2, n), r)

rotate_left(h, n) ==
    IF h[n].right = NULL THEN h
    ELSE
        LET r  == h[n].right
            right_left_tree  == h[r].left
            right_right_tree == h[r].right
            \* replace(&mut self.right, right_right_tree); the two swaps
            h1 == [h EXCEPT ![n].right = right_right_tree,
                            ![n].key = h[r].key, ![n].val = h[r].val,
                            ![r].key = h[n].key, ![r].val = h[n].val]
            left_tree == h1[n].left
            h2 == [h1 EXCEPT ![r].right = right_left_tree,
                             ![r].left = left_tree,
                             ![n].left = r]
            h3 == IF h2[n].left # NULL THEN update_height(h2, h2[n].left) ELSE h2
        IN  update_height(h3, n)

\* rotate_right swapping the keys of the two cells but not their vals
rotate_right_keeps_val(h, n) ==
    IF h[n].left = NULL THEN h
    ELSE
        LET l  == h[n].left
            h1 == [h EXCEPT ![n].left = h[l].left,
                            ![n].key = h[l].key, ![l].key = h[n].key]
            h2 == [h1 EXCEPT ![l].left = h[l].right, ![l].right = h1[n].right, ![n].right = l]
        IN  update_height(update_height(h2, l), n)

rotate_right(h, n) ==
    IF h[n].left = NULL THEN h
    ELSE
        LET l  == h[n].left
            left_right_tree == h[l].right
            left_left_tree  == h[l].left
            h1 == [h EXCEPT ![n].left = left_left_tree,
                            ![n].key = h[l].key, ![n].val = h[l].val,
                            ![l].key = h[n].key, ![l].val = h[n].val]
            right_tree == h1[n].right
            h2 == [h1 EXCEPT ![l].left = left_right_tree,
                             ![l].right = right_tree,
                             ![n].right = l]
            h3 == IF h2[n].right # NULL THEN update_height(h2, h2[n].right) ELSE h2
        IN  update_height(h3, n)

\* rebalance without the rotation of the inner child
rebalance_outer_only(h, n) ==
    LET bf == balance_factor(h, n)
    IN  IF bf = -2 THEN rotate_left(h, n)
        ELSE IF bf = 2 THEN rotate_right(h, n)
        ELSE h

rebalance(h, n) ==
    LET bf == balance_factor(h, n)
    IN  IF bf = -2 THEN
            LET right_node == h[n].right
                h1 == IF balance_factor(h, right_node) = 1
                      THEN rotate_right(h, right_node) ELSE h
            IN  rotate_left(h1, n)
        ELSE IF bf = 2 THEN
            LET left_node == h[n].left
                h1 == IF balance_factor(h, left_node) = -1
                      THEN rotate_left(h, left_node) ELSE h
            IN  rotate_right(h1, n)
        ELSE h

\* rebalance of the TreeNode of lib.rs, whose rotations are those of node.rs:
\* the left-heavy arm rotates the left child when its balance factor is 1
rebalance_lib(h, n) ==
    LET bf == balance_factor(h, n)
    IN  IF bf = -2 THEN
            LET right_node == h[n].right
                h1 == IF balance_factor(h, right_node) = 1
                      THEN rotate_right(h, right_node) ELSE h
            IN  rotate_left(h1, n)
        ELSE IF bf = 2 THEN
            LET left_node == h[n].left
                h1 == IF balance_factor(h, left_node) = 1
                      THEN rotate_left(h, left_node) ELSE h
            IN  rotate_right(h1, n)
        ELSE h

\* ------------------------------------------------- shared descent helpers
RECURSIVE Descend(_, _, _)
\* the cells a descent for key visits from n, the last one being the cell
\* that holds key or the cell whose wanted child slot is empty
Descend(h, n, key) ==
    IF n = NULL THEN <<>>
    ELSE IF key > h[n].key THEN <<n>> \o Descend(h, h[n].right, key)
    ELSE IF key < h[n].key THEN <<n>> \o Descend(h, h[n].left, key)
    ELSE <<n>>

RECURSIVE LeftSpine(_, _)
\* inner_ptrs holding the first cell of the spine only
LeftSpine_first_only(h, n) ==
    IF n = NULL THEN <<>> ELSE IF h[n].left # NULL THEN <<n>> ELSE <<>>

\* inner_ptrs: the cells on the left spine from n that have a left child
LeftSpine(h, n) ==
    IF n = NULL THEN <<>>
    ELSE IF h[n].left # NULL THEN <<n>> \o LeftSpine(h, h[n].left)
    ELSE <<>>

\* the last cell visited taken for the target whatever its key
Found_any_key(h, path, key) == path # <<>>

\* the descent ended on a cell that holds key (target_val is Some)
Found(h, path, key) == path # <<>> /\ h[Last(path)].key = key

\* the result of an operation: the heap, the root slot and the value returned
Out(h, r, res) == [heap |-> h, root |-> r, res |-> res]

\* ------------------------------------------------------------ binary.rs
bst_search(h, r, key) ==
    LET path == Descend(h, r, key)
    IN  IF Found(h, path, key)
        THEN Out(h, r, h[Last(path)].val)
        ELSE Out(h, r, None)

\* insert that leaves the stored value alone when the key is already there
bst_insert_keeps_value(h, r, key, val) ==
    LET path == Descend(h, r, key)
    IN  IF path = <<>> THEN Out(h, r, None)
        ELSE
            LET node == Last(path)
                new  == Alloc(h)
            IN  IF key > h[node].key THEN
                    Out([h EXCEPT ![new] = TreeNode_new(key, val), ![node].right = new], r, None)
                ELSE IF key < h[node].key THEN
                    Out([h EXCEPT ![new] = TreeNode_new(key, val), ![node].left = new], r, None)
                ELSE
                    Out(h, r, None)

bst_insert(h, r, key, val) ==
    LET path == Descend(h, r, key)
    IN  IF path = <<>> THEN Out(h, r, None)
        ELSE
            LET node == Last(path)
                new  == Alloc(h)
            IN  IF key > h[node].key THEN
                    Out([h EXCEPT ![new] = TreeNode_new(key, val), ![node].right = new], r, None)
                ELSE IF key < h[node].key THEN
                    Out([h EXCEPT ![new] = TreeNode_new(key, val), ![node].left = new], r, None)
                ELSE
                    Out([h EXCEPT ![node].val = val], r, None)

\* replace(node, *child): the child's fields move into node's cell and the
\* child's own Box is deallocated
ReplaceByChild(h, node, child) ==
    [h EXCEPT ![node] = h[child], ![child] = FreeCell]

\* the leaf arm taking the right link whatever the left child holds
LeafTake_right_always(h, prev_node, node) == "right"

\* the leaf arm of remove: which link of prev_node is taken
LeafTake(h, prev_node, node) ==
    IF h[prev_node].left # NULL
    THEN IF h[h[prev_node].left].val = h[node].val THEN "left" ELSE "right"
    ELSE "right"

\* prev_node.<side>.take().unwrap().val, the Box taken being dropped
TakeChild(h, prev_node, side) ==
    IF side = "left"
    THEN DropBox([h EXCEPT ![prev_node].left = NULL], h[prev_node].left)
    ELSE DropBox([h EXCEPT ![prev_node].right = NULL], h[prev_node].right)

TakenVal(h, prev_node, side) ==
    IF side = "left" THEN h[h[prev_node].left].val ELSE h[h[prev_node].right].val

bst_remove(h, r, key) ==
    LET path == Descend(h, r, key)
    IN  IF ~Found(h, path, key) THEN Out(h, r, None)
        ELSE
            LET node == Last(path)
                prev_ptrs == Front(path)
            IN  IF h[node].left # NULL /\ h[node].right # NULL THEN
                    IF h[h[node].right].left = NULL THEN
                        LET right_node == h[node].right
                            h1 == [h EXCEPT ![node].val = h[right_node].val,
                                            ![node].key = h[right_node].key,
                                            ![node].right = h[right_node].right,
                                            ![right_node] = FreeCell]
                        IN  Out(h1, r, h[node].val)
                    ELSE
                        LET inner_ptrs == LeftSpine(h, h[node].right)
                            parent_left_node == Last(inner_ptrs)
                            leftmost_node == h[parent_left_node].left
                            h1 == [h EXCEPT ![node].val = h[leftmost_node].val,
                                            ![node].key = h[leftmost_node].key,
                                            ![parent_left_node].left = h[leftmost_node].right,
                                            ![leftmost_node] = FreeCell]
                        IN  Out(h1, r, h[node].val)
                ELSE IF h[node].left = NULL /\ h[node].right # NULL THEN
                    Out(ReplaceByChild(h, node, h[node].right), r, h[node].val)
                ELSE IF h[node].right = NULL /\ h[node].left # NULL THEN
                    Out(ReplaceByChild(h, node, h[node].left), r, h[node].val)
                ELSE IF prev_ptrs # <<>> THEN
                    LET prev_node == Last(prev_ptrs)
                        side == LeafTake(h, prev_node, node)
                    IN  Out(TakeChild(h, prev_node, side), r, TakenVal(h, prev_node, side))
                ELSE
                    Out(DropBox(h, r), NULL, h[r].val)

\* --------------------------------------------------------------- avl.rs
avl_search(h, r, key) ==
    LET path == Descend(h, r, key)
    IN  IF Found(h, path, key)
        THEN Out(h, r, h[Last(path)].val)
        ELSE Out(h, r, None)

\* one step of a fix-up walk
FixNode(h, n) == rebalance(update_height(h, n), n)

RECURSIVE FixUp(_, _)
\* while let Some(node_ptr) = ptrs.pop() { update_height; rebalance }
FixUp(h, ptrs) ==
    IF ptrs = <<>> THEN h
    ELSE FixUp(FixNode(h, Last(ptrs)), Front(ptrs))

\* prev_ptrs of insert: every cell compared with a different key
InsertChain(h, path, key) ==
    IF path # <<>> /\ h[Last(path)].key = key THEN Front(path) ELSE path

avl_insert(h, r, key, val) ==
    LET path == Descend(h, r, key)
    IN  IF path = <<>> THEN Out(h, r, None)
        ELSE
            LET node == Last(path)
                new  == Alloc(h)
                prev_ptrs == InsertChain(h, path, key)
                h1 == IF key > h[node].key THEN
                          [h EXCEPT ![new] = TreeNode_new(key, val), ![node].right = new]
                      ELSE IF key < h[node].key THEN
                          [h EXCEPT ![new] = TreeNode_new(key, val), ![node].left = new]
                      ELSE
                          [h EXCEPT ![node].val = val]
            IN  Out(FixUp(h1, prev_ptrs), r, None)

avl_remove(h, r, key) ==
    LET path == Descend(h, r, key)
    IN  IF ~Found(h, path, key) THEN Out(h, r, None)
        ELSE
            LET node == Last(path)
                prev_ptrs == Front(path)
            IN  IF h[node].left # NULL /\ h[node].right # NULL THEN
                    IF h[h[node].right].left = NULL THEN
                        LET right_node == h[node].right
                            h1 == [h EXCEPT ![node].val = h[right_node].val,
                                            ![node].key = h[right_node].key,
                                            ![node].right = h[right_node].right,
                                            ![right_node] = FreeCell]
                            h2 == FixNode(h1, node)
                        IN  Out(FixUp(h2, prev_ptrs), r, h[node].val)
                    ELSE
                        LET inner_ptrs == LeftSpine(h, h[node].right)
                            parent_left_node == Last(inner_ptrs)
                            leftmost_node == h[parent_left_node].left
                            h1 == [h EXCEPT ![node].val = h[leftmost_node].val,
                                            ![node].key = h[leftmost_node].key,
                                            ![parent_left_node].left = h[leftmost_node].right,
                                            ![leftmost_node] = FreeCell]
                            h2 == FixUp(h1, Front(inner_ptrs))
                        IN  Out(FixUp(h2, prev_ptrs), r, h[node].val)
                ELSE IF h[node].left = NULL /\ h[node].right # NULL THEN
                    LET h1 == ReplaceByChild(h, node, h[node].right)
                    IN  Out(FixUp(h1, prev_ptrs), r, h[node].val)
                ELSE IF h[node].right = NULL /\ h[node].left # NULL THEN
                    LET h1 == ReplaceByChild(h, node, h[node].left)
                    IN  Out(FixUp(h1, prev_ptrs), r, h[node].val)
                ELSE IF prev_ptrs # <<>> THEN
                    LET prev_node == Last(prev_ptrs)
                        side == LeafTake(h, prev_node, node)
                        h1 == TakeChild(h, prev_node, side)
                        h2 == FixNode(h1, prev_node)
                    IN  Out(FixUp(h2, Front(prev_ptrs)), r, TakenVal(h, prev_node, side))
                ELSE
                    Out(DropBox(h, r), NULL, h[r].val)

\* ------------------------------------------------- node.rs: who_child, splay
who_child(h, self, parent) ==
    IF h[parent].left # NULL /\ h[h[parent].left].key = h[self].key
    THEN "Left" ELSE "Right"

\* the three update_height calls that end every arm of the splay loop
SplayHeights(h, node, parent, grandparent) ==
    update_height(update_height(update_height(h, node), parent), grandparent)

\* the relink giving v_left to parent as well as to grandparent in the zig-zig
\* and v_right to both in the zag-zag, the other two arms as they are
SplayStep_shared_subtree(h, node, parent, grandparent) ==
    LET hs == [h EXCEPT ![node].key = h[grandparent].key,
                        ![node].val = h[grandparent].val,
                        ![grandparent].key = h[node].key,
                        ![grandparent].val = h[node].val]
        vc == who_child(h, node, parent)
        pc == who_child(h, parent, grandparent)
        hr == IF vc = "Left" /\ pc = "Left" THEN
                  [hs EXCEPT ![node].left = h[parent].right, ![node].right = h[grandparent].right,
                             ![parent].left = h[node].left, ![parent].right = h[parent].left,
                             ![grandparent].left = h[node].left,
                             ![grandparent].right = h[grandparent].left]
              ELSE IF vc = "Right" /\ pc = "Right" THEN
                  [hs EXCEPT ![node].left = h[grandparent].left, ![node].right = h[parent].left,
                             ![parent].right = h[node].right, ![parent].left = h[parent].right,
                             ![grandparent].right = h[node].right,
                             ![grandparent].left = h[grandparent].right]
              ELSE IF vc = "Left" /\ pc = "Right" THEN
                  [hs EXCEPT ![node].left = h[grandparent].left, ![node].right = h[node].left,
                             ![parent].left = h[node].right,
                             ![grandparent].left = h[parent].left]
              ELSE
                  [hs EXCEPT ![node].left = h[node].right, ![node].right = h[grandparent].right,
                             ![parent].right = h[node].left,
                             ![grandparent].right = h[parent].right]
    IN  SplayHeights(hr, node, parent, grandparent)

\* one iteration of the splay loop: the relink of node, parent, grandparent
SplayStep(h, node, parent, grandparent) ==
    LET v_left  == h[node].left
        v_right == h[node].right
        p_left  == h[parent].left
        p_right == h[parent].right
        g_left  == h[grandparent].left
        g_right == h[grandparent].right
        \* swap(node.key, grandparent.key); swap(node.val, grandparent.val)
        hs == [h EXCEPT ![node].key = h[grandparent].key,
                        ![node].val = h[grandparent].val,
                        ![grandparent].key = h[node].key,
                        ![grandparent].val = h[node].val]
        vc == who_child(h, node, parent)
        pc == who_child(h, parent, grandparent)
        hr == IF vc = "Left" /\ pc = "Left" THEN
                  [hs EXCEPT ![node].left = p_right, ![node].right = g_right,
                             ![parent].left = v_right, ![parent].right = p_left,
                             ![grandparent].left = v_left, ![grandparent].right = g_left]
              ELSE IF vc = "Right" /\ pc = "Right" THEN
                  [hs EXCEPT ![node].left = g_left, ![node].right = p_left,
                             ![parent].right = v_left, ![parent].left = p_right,
                             ![grandparent].right = v_right, ![grandparent].left = g_right]
              ELSE IF vc = "Left" /\ pc = "Right" THEN
                  [hs EXCEPT ![node].left = g_left, ![node].right = v_left,
                             ![parent].left = v_right,
                             ![grandparent].left = p_left]
              ELSE
                  [hs EXCEPT ![node].left = v_right, ![node].right = g_right,
                             ![parent].right = v_left,
                             ![grandparent].right = p_right]
    IN  SplayHeights(hr, node, parent, grandparent)

RECURSIVE SplayLoop(_, _, _)
\* while let (Some(parent), Some(grandparent)) = (ptrs.pop(), ptrs.pop());
\* yields the heap and the cell node refers to when the loop ends
SplayLoop(h, node, ptrs) ==
    IF Len(ptrs) < 2 THEN [heap |-> h, node |-> node]
    ELSE
        LET parent == ptrs[Len(ptrs)]
            grandparent == ptrs[Len(ptrs) - 1]
        IN  SplayLoop(SplayStep(h, node, parent, grandparent), grandparent,
                      SubSeq(ptrs, 1, Len(ptrs) - 2))

\* splay without the single rotation at the ancestor left over by the pairing
splay_no_last_rotation(h, node, prev_ptrs) ==
    LET ptrs == IF Len(prev_ptrs) % 2 = 1 THEN Tail(prev_ptrs) ELSE prev_ptrs
    IN  SplayLoop(h, node, ptrs).heap

splay(h, node, prev_ptrs) ==
    LET odd == Len(prev_ptrs) % 2 = 1
        last_parent == IF odd THEN prev_ptrs[1] ELSE NULL
        ptrs == IF odd THEN Tail(prev_ptrs) ELSE prev_ptrs
        lp == SplayLoop(h, node, ptrs)
    IN  IF last_parent # NULL THEN
            IF who_child(lp.heap, lp.node, last_parent) = "Left"
            THEN rotate_right(lp.heap, last_parent)
            ELSE rotate_left(lp.heap, last_parent)
        ELSE lp.heap

\* ------------------------------------------------------------- splay.rs
searchin(h, r, key) ==
    LET prev_ptrs == Descend(h, r, key)
    IN  IF prev_ptrs # <<>> THEN splay(h, Last(prev_ptrs), Front(prev_ptrs)) ELSE h

splay_search(h, r, key) ==
    LET h1 == searchin(h, r, key)
    IN  IF r # NULL /\ h1[r].key = key THEN Out(h1, r, h1[r].val) ELSE Out(h1, r, None)

splay_insert(h, r, key, val) ==
    LET h1 == searchin(h, r, key)
    IN  IF r = NULL THEN Out(h1, r, None)
        ELSE IF h1[r].key = key THEN Out([h1 EXCEPT ![r].val = val], r, None)
        ELSE
            LET old_node == Alloc(h1)
                h2 == [h1 EXCEPT ![r].key = key, ![r].val = val,
                                 ![old_node] = TreeNode_new(h1[r].key, h1[r].val)]
            IN  IF h1[r].key < key THEN
                    LET h3 == [h2 EXCEPT ![old_node].left = h2[r].left, ![r].left = NULL]
                        h4 == update_height(h3, old_node)
                        h5 == [h4 EXCEPT ![r].left = old_node]
                    IN  Out(update_height(h5, r), r, None)
                ELSE
                    LET h3 == [h2 EXCEPT ![old_node].right = h2[r].right, ![r].right = NULL]
                        h4 == update_height(h3, old_node)
                        h5 == [h4 EXCEPT ![r].right = old_node]
                    IN  Out(update_height(h5, r), r, None)

splay_remove(h, r, key) ==
    LET h1 == searchin(h, r, key)
    IN  IF r = NULL \/ h1[r].key # key THEN Out(h1, r, None)
        ELSE IF h1[r].right = NULL THEN
            \* self.0 = left_tree: the old root Box is dropped, its left taken
            Out([h1 EXCEPT ![r] = FreeCell], h1[r].left, h1[r].val)
        ELSE IF h1[h1[r].right].left = NULL THEN
            LET right_node == h1[r].right
                h2 == [h1 EXCEPT ![r].val = h1[right_node].val,
                                 ![r].key = h1[right_node].key,
                                 ![r].right = h1[right_node].right,
                                 ![right_node] = FreeCell]
            IN  Out(update_height(h2, r), r, h1[r].val)
        ELSE
            LET parent_left_node == Last(LeftSpine(h1, h1[r].right))
                leftmost_node == h1[parent_left_node].left
                h2 == [h1 EXCEPT ![r].val = h1[leftmost_node].val,
                                 ![r].key = h1[leftmost_node].key,
                                 ![parent_left_node].left = h1[leftmost_node].right,
                                 ![leftmost_node] = FreeCell]
            IN  Out(update_height(h2, r), r, h1[r].val)

\* ------------------------------------------- the BST trait of the engines
Search(e, h, r, key) ==
    IF e = "bst" THEN bst_search(h, r, key)
    ELSE IF e = "avl" THEN avl_search(h, r, key)
    ELSE splay_search(h, r, key)

Insert(e, h, r, key, val) ==
    IF e = "bst" THEN bst_insert(h, r, key, val)
    ELSE IF e = "avl" THEN avl_insert(h, r, key, val)
    ELSE splay_insert(h, r, key, val)

Remove(e, h, r, key) ==
    IF e = "bst" THEN bst_remove(h, r, key)
    ELSE IF e = "avl" THEN avl_remove(h, r, key)
    ELSE splay_remove(h, r, key)

\* ------------------------------------------- the fallible steps of a call
\* rebalance: self.right.as_mut().unwrap() and self.left.as_mut().unwrap()
rebalance_ok(h, n) ==
    LET bf == balance_factor(h, n)
    IN  /\ bf = -2 => h[n].right # NULL
        /\ bf = 2 => h[n].left # NULL

RECURSIVE FixUpOk(_, _)
\* a fix-up walk dereferences live cells only and reaches no failing unwrap
FixUpOk(h, ptrs) ==
    IF ptrs = <<>> THEN TRUE
    ELSE
        LET n == Last(ptrs)
        IN  /\ ~IsFree(h, n)
            /\ rebalance_ok(update_height(h, n), n)
            /\ FixUpOk(FixNode(h, n), Front(ptrs))

\* inner_ptrs.pop().unwrap() and parent_left_node.left.take().unwrap()
SuccessorOk(h, node) ==
    LET inner_ptrs == LeftSpine(h, h[node].right)
    IN  inner_ptrs # <<>> /\ h[Last(inner_ptrs)].left # NULL

\* prev_node.<side>.take().unwrap() of the leaf arm
LeafTakeOk(h, prev_node, node) ==
    IF LeafTake(h, prev_node, node) = "left"
    THEN h[prev_node].left # NULL
    ELSE h[prev_node].right # NULL

bst_remove_ok(h, r, key) ==
    LET path == Descend(h, r, key)
    IN  IF ~Found(h, path, key) THEN TRUE
        ELSE
            LET node == Last(path)
                prev_ptrs == Front(path)
            IN  IF h[node].left # NULL /\ h[node].right # NULL THEN
                    h[h[node].right].left # NULL => SuccessorOk(h, node)
                ELSE IF h[node].left # NULL \/ h[node].right # NULL THEN TRUE
                ELSE IF prev_ptrs # <<>> THEN LeafTakeOk(h, Last(prev_ptrs), node)
                ELSE r # NULL

avl_insert_ok(h, r, key, val) ==
    LET path == Descend(h, r, key)
    IN  IF path = <<>> THEN TRUE
        ELSE
            LET node == Last(path)
                new  == Alloc(h)
                h1 == IF key > h[node].key THEN
                          [h EXCEPT ![new] = TreeNode_new(key, val), ![node].right = new]
                      ELSE IF key < h[node].key THEN
                          [h EXCEPT ![new] = TreeNode_new(key, val), ![node].left = new]
                      ELSE
                          [h EXCEPT ![node].val = val]
            IN  FixUpOk(h1, InsertChain(h, path, key))

avl_remove_ok(h, r, key) ==
    LET path == Descend(h, r, key)
    IN  IF ~Found(h, path, key) THEN TRUE
        ELSE
            LET node == Last(path)
                prev_ptrs == Front(path)
            IN  IF h[node].left # NULL /\ h[node].right # NULL THEN
                    IF h[h[node].right].left = NULL THEN
                        LET right_node == h[node].right
                            h1 == [h EXCEPT ![node].val = h[right_node].val,
                                            ![node].key = h[right_node].key,
                                            ![node].right = h[right_node].right,
                                            ![right_node] = FreeCell]
                        IN  FixUpOk(h1, prev_ptrs \o <<node>>)
                    ELSE
                        /\ SuccessorOk(h, node)
                        /\ LET inner_ptrs == LeftSpine(h, h[node].right)
                               parent_left_node == Last(inner_ptrs)
                               leftmost_node == h[parent_left_node].left
                               h1 == [h EXCEPT ![node].val = h[leftmost_node].val,
                                               ![node].key = h[leftmost_node].key,
                                               ![parent_left_node].left = h[leftmost_node].right,
                                               ![leftmost_node] = FreeCell]
                           IN  /\ FixUpOk(h1, Front(inner_ptrs))
                               /\ FixUpOk(FixUp(h1, Front(inner_ptrs)), prev_ptrs)
                ELSE IF h[node].left = NULL /\ h[node].right # NULL THEN
                    FixUpOk(ReplaceByChild(h, node, h[node].right), prev_ptrs)
                ELSE IF h[node].right = NULL /\ h[node].left # NULL THEN
                    FixUpOk(ReplaceByChild(h, node, h[node].left), prev_ptrs)
                ELSE IF prev_ptrs # <<>> THEN
                    LET prev_node == Last(prev_ptrs)
                    IN  /\ LeafTakeOk(h, prev_node, node)
                        /\ FixUpOk(TakeChild(h, prev_node, LeafTake(h, prev_node, node)),
                                   prev_ptrs)
                ELSE r # NULL

\* splay dereferences node and every pointer of prev_ptrs, all of them cells
\* the descent has just visited
searchin_ok(h, r, key) ==
    \A n \in {Descend(h, r, key)[i] : i \in 1..Len(Descend(h, r, key))} : ~IsFree(h, n)

\* after searchin: node.right.as_ref().unwrap(), the dereference of
\* parent_left_ptr and parent_left_node.left.take().unwrap()
splay_remove_ok(h, r, key) ==
    /\ searchin_ok(h, r, key)
    /\ LET h1 == searchin(h, r, key)
       IN  (r # NULL /\ h1[r].key = key /\ h1[r].right # NULL
              /\ h1[h1[r].right].left # NULL) => SuccessorOk(h1, r)

\* the call runs to its return
SearchOk(e, h, r, key) == e = "splay" => searchin_ok(h, r, key)

InsertOk(e, h, r, key, val) ==
    IF e = "avl" THEN avl_insert_ok(h, r, key, val)
    ELSE e = "splay" => searchin_ok(h, r, key)

RemoveOk(e, h, r, key) ==
    IF e = "bst" THEN bst_remove_ok(h, r, key)
    ELSE IF e = "avl" THEN avl_remove_ok(h, r, key)
    ELSE splay_remove_ok(h, r, key)

\* --------------------------------- the cells a fix-up of the AVL engine visits
\* a chain of pointers in the order in which pop() hands them out
Popped(ptrs) == [i \in 1..Len(ptrs) |-> ptrs[Len(ptrs) + 1 - i]]

\* the cells at which insert calls update_height and rebalance, in order
avl_insert_visits(h, r, key) ==
    Popped(InsertChain(h, Descend(h, r, key), key))

\* the cells at which remove calls update_height and rebalance, in order
avl_remove_visits(h, r, key) ==
    LET path == Descend(h, r, key)
    IN  IF ~Found(h, path, key) THEN <<>>
        ELSE
            LET node == Last(path)
                prev_ptrs == Front(path)
            IN  IF h[node].left # NULL /\ h[node].right # NULL THEN
                    IF h[h[node].right].left = NULL
                    THEN <<node>> \o Popped(prev_ptrs)
                    ELSE Popped(Front(LeftSpine(h, h[node].right))) \o Popped(prev_ptrs)
                ELSE IF h[node].left # NULL \/ h[node].right # NULL THEN Popped(prev_ptrs)
                ELSE IF prev_ptrs # <<>>
                    THEN <<Last(prev_ptrs)>> \o Popped(Front(prev_ptrs))
                    ELSE <<>>

\* the cells from the parent of the slot insert fills up to the root; none
\* when the key is there already, as no node is attached
InsertFixPath(h, r, key) ==
    LET path == Descend(h, r, key)
    IN  IF Found(h, path, key) THEN <<>> ELSE Popped(path)

\* the cells from the parent of the slot remove empties or refills up to the
\* root: the slot of the successor when the target has two children (the
\* target is then on the way up), the slot of the target otherwise
RemoveFixPath(h, r, key) ==
    LET path == Descend(h, r, key)
    IN  IF ~Found(h, path, key) THEN <<>>
        ELSE
            LET node == Last(path)
                prev_ptrs == Front(path)
            IN  IF h[node].left # NULL /\ h[node].right # NULL
                THEN Popped(LeftSpine(h, h[node].right)) \o <<node>> \o Popped(prev_ptrs)
                ELSE Popped(prev_ptrs)

RECURSIVE IsSubSeq(_, _)
\* every element of s occurs in t, in the order of s
IsSubSeq(s, t) ==
    IF s = <<>> THEN TRUE
    ELSE IF t = <<>> THEN FALSE
    ELSE IF Head(s) = Head(t) THEN IsSubSeq(Tail(s), Tail(t))
    ELSE IsSubSeq(s, Tail(t))

\* ------------------------------------ the ancestor chains while they are used
\* the handles of a chain, root end first: each refers to a live cell of the
\* tree and each is a proper ancestor of the next
ChainValid(h, r, chain) ==
    \A i \in 1..Len(chain) :
        /\ ~IsFree(h, chain[i])
        /\ chain[i] \in Nodes(h, r)
        /\ i < Len(chain) => chain[i + 1] \in Nodes(h, chain[i]) \ {chain[i]}

RECURSIVE WalkValid(_, _, _)
\* the chain is valid before every pop of a fix-up walk
WalkValid(h, r, ptrs) ==
    IF ptrs = <<>> THEN TRUE
    ELSE ChainValid(h, r, ptrs) /\ WalkValid(FixNode(h, Last(ptrs)), r, Front(ptrs))

\* the fix-up walk of insert: the heap it starts on and its chain
avl_insert_walks(h, r, key, val) ==
    LET path == Descend(h, r, key)
    IN  IF path = <<>> THEN <<>>
        ELSE
            LET node == Last(path)
                new  == Alloc(h)
                h1 == IF key > h[node].key THEN
                          [h EXCEPT ![new] = TreeNode_new(key, val), ![node].right = new]
                      ELSE IF key < h[node].key THEN
                          [h EXCEPT ![new] = TreeNode_new(key, val), ![node].left = new]
                      ELSE
                          [h EXCEPT ![node].val = val]
            IN  <<[heap |-> h1, ptrs |-> InsertChain(h, path, key)]>>

\* remove unlinking the target cell that has a right child without left
\* child, the right child taking its place, the target staying in the chain
avl_remove_walks_unlinking(h, r, key) ==
    LET path == Descend(h, r, key)
        node == Last(path)
    IN  IF Found(h, path, key) /\ h[node].left # NULL /\ h[node].right # NULL
           /\ h[h[node].right].left = NULL /\ Len(path) > 1
        THEN LET right_node == h[node].right
                 prev_node == path[Len(path) - 1]
                 h1 == [h EXCEPT ![right_node].left = h[node].left,
                                 ![prev_node].left = IF @ = node THEN right_node ELSE @,
                                 ![prev_node].right = IF @ = node THEN right_node ELSE @,
                                 ![node] = FreeCell]
             IN  <<[heap |-> h1, ptrs |-> path]>>
        ELSE <<>>

\* the fix-up walks of remove, in order: the heap each starts on and its chain
avl_remove_walks(h, r, key) ==
    LET path == Descend(h, r, key)
    IN  IF ~Found(h, path, key) THEN <<>>
        ELSE
            LET node == Last(path)
                prev_ptrs == Front(path)
            IN  IF h[node].left # NULL /\ h[node].right # NULL THEN
                    IF h[h[node].right].left = NULL THEN
                        LET right_node == h[node].right
                            h1 == [h EXCEPT ![node].val = h[right_node].val,
                                            ![node].key = h[right_node].key,
                                            ![node].right = h[right_node].right,
                                            ![right_node] = FreeCell]
                        IN  <<[heap |-> h1, ptrs |-> prev_ptrs \o <<node>>]>>
                    ELSE
                        LET inner_ptrs == LeftSpine(h, h[node].right)
                            parent_left_node == Last(inner_ptrs)
                            leftmost_node == h[parent_left_node].left
                            h1 == [h EXCEPT ![node].val = h[leftmost_node].val,
                                            ![node].key = h[leftmost_node].key,
                                            ![parent_left_node].left = h[leftmost_node].right,
                                            ![leftmost_node] = FreeCell]
                        IN  <<[heap |-> h1, ptrs |-> Front(inner_ptrs)],
                              [heap |-> FixUp(h1, Front(inner_ptrs)), ptrs |-> prev_ptrs]>>
                ELSE IF h[node].left = NULL /\ h[node].right # NULL THEN
                    <<[heap |-> ReplaceByChild(h, node, h[node].right), ptrs |-> prev_ptrs]>>
                ELSE IF h[node].right = NULL /\ h[node].left # NULL THEN
                    <<[heap |-> ReplaceByChild(h, node, h[node].left), ptrs |-> prev_ptrs]>>
                ELSE IF prev_ptrs # <<>> THEN
                    LET prev_node == Last(prev_ptrs)
                    IN  <<[heap |-> TakeChild(h, prev_node, LeafTake(h, prev_node, node)),
                           ptrs |-> prev_ptrs]>>
                ELSE <<>>

RECURSIVE SplayChainValid(_, _, _, _, _)
\* the chain of a splay pass, last_parent included, is valid before every
\* iteration of the loop and before the final single rotation
SplayChainValid(h, r, node, ptrs, top) ==
    /\ ChainValid(h, r, top \o ptrs \o <<node>>)
    /\ IF Len(ptrs) < 2 THEN TRUE
       ELSE LET parent == ptrs[Len(ptrs)]
                grandparent == ptrs[Len(ptrs) - 1]
            IN  SplayChainValid(SplayStep(h, node, parent, grandparent), r, grandparent,
                                SubSeq(ptrs, 1, Len(ptrs) - 2), top)

\* the splay pass searchin(key) runs
searchin_chain_valid(h, r, key) ==
    LET path == Descend(h, r, key)
    IN  IF path = <<>> THEN TRUE
        ELSE LET prev_ptrs == Front(path)
                 odd == Len(prev_ptrs) % 2 = 1
             IN  SplayChainValid(h, r, Last(path),
                                 IF odd THEN Tail(prev_ptrs) ELSE prev_ptrs,
                                 IF odd THEN <<prev_ptrs[1]>> ELSE <<>>)

\* ------------------------------------------- the rotations an engine invokes
\* the rotations rebalance invokes, in order: the cell and the heap of each
rebalance_rotations(h, n) ==
    LET bf == balance_factor(h, n)
    IN  IF bf = -2 THEN
            LET right_node == h[n].right
                inner == balance_factor(h, right_node) = 1
                h1 == IF inner THEN rotate_right(h, right_node) ELSE h
            IN  (IF inner THEN <<[op |-> "rotate_right", node |-> right_node, heap |-> h]>>
                 ELSE <<>>) \o <<[op |-> "rotate_left", node |-> n, heap |-> h1]>>
        ELSE IF bf = 2 THEN
            LET left_node == h[n].left
                inner == balance_factor(h, left_node) = -1
                h1 == IF inner THEN rotate_left(h, left_node) ELSE h
            IN  (IF inner THEN <<[op |-> "rotate_left", node |-> left_node, heap |-> h]>>
                 ELSE <<>>) \o <<[op |-> "rotate_right", node |-> n, heap |-> h1]>>
        ELSE <<>>

\* the rotations the rebalance of lib.rs invokes
rebalance_lib_rotations(h, n) ==
    LET bf == balance_factor(h, n)
    IN  IF bf = -2 THEN
            LET right_node == h[n].right
                inner == balance_factor(h, right_node) = 1
                h1 == IF inner THEN rotate_right(h, right_node) ELSE h
            IN  (IF inner THEN <<[op |-> "rotate_right", node |-> right_node, heap |-> h]>>
                 ELSE <<>>) \o <<[op |-> "rotate_left", node |-> n, heap |-> h1]>>
        ELSE IF bf = 2 THEN
            LET left_node == h[n].left
                inner == balance_factor(h, left_node) = 1
                h1 == IF inner THEN rotate_left(h, left_node) ELSE h
            IN  (IF inner THEN <<[op |-> "rotate_left", node |-> left_node, heap |-> h]>>
                 ELSE <<>>) \o <<[op |-> "rotate_right", node |-> n, heap |-> h1]>>
        ELSE <<>>

\* the single rotation that ends a splay pass, if any
splay_rotations(h, node, prev_ptrs) ==
    LET odd == Len(prev_ptrs) % 2 = 1
        ptrs == IF odd THEN Tail(prev_ptrs) ELSE prev_ptrs
        lp == SplayLoop(h, node, ptrs)
    IN  IF odd THEN
            IF who_child(lp.heap, lp.node, prev_ptrs[1]) = "Left"
            THEN <<[op |-> "rotate_right", node |-> prev_ptrs[1], heap |-> lp.heap]>>
            ELSE <<[op |-> "rotate_left", node |-> prev_ptrs[1], heap |-> lp.heap]>>
        ELSE <<>>

\* the rotation goes past its early return: the child it lifts is there
RotationActs(call) ==
    IF call.op = "rotate_left"
    THEN call.heap[call.node].right # NULL
    ELSE call.heap[call.node].left # NULL

RECURSIVE WalkRotations(_, _)
\* the rotations of a fix-up walk, by either rebalance, at every node popped
WalkRotations(h, ptrs) ==
    IF ptrs = <<>> THEN <<>>
    ELSE LET n == Last(ptrs)
             hu == update_height(h, n)
         IN  rebalance_rotations(hu, n) \o rebalance_lib_rotations(hu, n)
                \o WalkRotations(FixNode(h, n), Front(ptrs))

\* each entry of the chain is the parent of the next, node coming last
ParentChain(h, chain) ==
    \A i \in 1..(Len(chain) - 1) :
        chain[i + 1] \in {h[chain[i]].left, h[chain[i]].right}

\* ------------------------------------------------------ ownership of cells
\* the cells that hold a node
Live(h) == {n \in Ids : ~IsFree(h, n)}

\* the Boxes a cell owns
Owned(h, n) == {h[n].left, h[n].right} \ {NULL}

\* the number of links that own the cell n
Owners(h, n) ==
    Cardinality({p \in Live(h) : h[p].left = n}) + Cardinality({p \in Live(h) : h[p].right = n})

\* Option<Box<TreeNode>> r owns a tree: every live cell but r has one owner,
\* r has none (so that no walk from r meets a cell twice), and every live cell
\* is owned, directly or not, by r
TreeShaped(h, r) ==
    IF r = NULL THEN Live(h) = {}
    ELSE /\ r \in Live(h)
         /\ Owners(h, r) = 0
         /\ \A n \in Live(h) : Owned(h, n) \subseteq Live(h)
         /\ \A n \in Live(h) \ {r} : Owners(h, n) = 1
         /\ Nodes(h, r) = Live(h)

RECURSIVE SplayHeaps(_, _, _)
\* the heap after each iteration of the splay loop
SplayHeaps(h, node, ptrs) ==
    IF Len(ptrs) < 2 THEN <<>>
    ELSE
        LET parent == ptrs[Len(ptrs)]
            grandparent == ptrs[Len(ptrs) - 1]
            h1 == SplayStep(h, node, parent, grandparent)
        IN  <<h1>> \o SplayHeaps(h1, grandparent, SubSeq(ptrs, 1, Len(ptrs) - 2))

\* the heaps searchin(key) goes through: after each relink and at its end
searchin_heaps(h, r, key) ==
    LET path == Descend(h, r, key)
        prev_ptrs == Front(path)
    IN  IF path = <<>> THEN <<>>
        ELSE SplayHeaps(h, Last(path),
                        IF Len(prev_ptrs) % 2 = 1 THEN Tail(prev_ptrs) ELSE prev_ptrs)
                \o <<searchin(h, r, key)>>

\* ------------------------------------------------------- the state machine
\* new(root_key, root_val) of the chosen engine
Init ==
    \E e \in Engines, k0 \in Keys, v0 \in Vals :
        /\ engine = e
        /\ heap = [n \in Ids |-> IF n = 1 THEN TreeNode_new(k0, v0) ELSE FreeCell]
        /\ root = 1
        /\ last = [op |-> "new", key |-> k0, val |-> v0, res |-> None]
        /\ inserted = [k \in AllKeys |-> IF k = k0 THEN v0 ELSE None]
        /\ table = <<>>
        /\ capacity = 0
        /\ data = <<>>

RECURSIVE Preorder(_, _)
\* the cells of the subtree whose root is n, owner before owned, left before right
Preorder(h, n) ==
    IF n = NULL THEN <<>>
    ELSE <<n>> \o Preorder(h, h[n].left) \o Preorder(h, h[n].right)

\* An owned tree is a value (TreeNode derives PartialEq over its fields and its
\* boxed children) and no raw pointer outlives the call that made it, so between
\* two calls the addresses of the cells carry no information: the state keeps
\* the tree with its cells numbered in pre-order.
Canon(h, r) ==
    LET ord == Preorder(h, r)
        pos(n) == IF n = NULL THEN NULL ELSE CHOOSE i \in 1..Len(ord) : ord[i] = n
    IN  [i \in Ids |->
            IF i <= Len(ord)
            THEN [h[ord[i]] EXCEPT !.left = pos(@), !.right = pos(@)]
            ELSE FreeCell]

CanonRoot(r) == IF r = NULL THEN NULL ELSE 1

\* The call is recorded in last.  As long as insert and search are the only
\* calls made since new, inserted maps a key to the last value inserted for it.
Record(op, key, val, out) ==
    /\ heap' = Canon(out.heap, out.root)
    /\ root' = CanonRoot(out.root)
    /\ last' = [op |-> op, key |-> key, val |-> val, res |-> out.res]
    /\ inserted' = IF op = "remove" \/ inserted = NA THEN NA
                   ELSE IF op = "insert" THEN [inserted EXCEPT ![key] = val]
                   ELSE inserted
    /\ UNCHANGED <<engine, table, capacity, data>>

BstSearch ==
    /\ engine = "bst"
    /\ \E key \in Keys : Record("search", key, None, bst_search(heap, root, key))

BstInsert ==
    /\ engine = "bst"
    /\ \E key \in Keys, val \in Vals : Record("insert", key, val, bst_insert(heap, root, key, val))

BstRemove ==
    /\ engine = "bst"
    /\ \E key \in Keys : Record("remove", key, None, bst_remove(heap, root, key))

AvlSearch ==
    /\ engine = "avl"
    /\ \E key \in Keys : Record("search", key, None, avl_search(heap, root, key))

AvlInsert ==
    /\ engine = "avl"
    /\ \E key \in Keys, val \in Vals : Record("insert", key, val, avl_insert(heap, root, key, val))

AvlRemove ==
    /\ engine = "avl"
    /\ \E key \in Keys : Record("remove", key, None, avl_remove(heap, root, key))

SplaySearch ==
    /\ engine = "splay"
    /\ \E key \in Keys : Record("search", key, None, splay_search(heap, root, key))

SplayInsert ==
    /\ engine = "splay"
    /\ \E key \in Keys, val \in Vals : Record("insert", key, val, splay_insert(heap, root, key, val))

SplayRemove ==
    /\ engine = "splay"
    /\ \E key \in Keys : Record("remove", key, None, splay_remove(heap, root, key))

Next ==
    \/ BstSearch \/ BstInsert \/ BstRemove
    \/ AvlSearch \/ AvlInsert \/ AvlRemove
    \/ SplaySearch \/ SplayInsert \/ SplayRemove

Spec == Init /\ [][Next]_vars

\* the three engines on more keys, each key carrying its own value
InitWide ==
    \E e \in Engines, k0 \in WideKeys :
        /\ engine = e
        /\ heap = [n \in Ids |-> IF n = 1 THEN TreeNode_new(k0, k0) ELSE FreeCell]
        /\ root = 1
        /\ last = [op |-> "new", key |-> k0, val |-> k0, res |-> None]
        /\ inserted = [k \in AllKeys |-> IF k = k0 THEN k0 ELSE None]
        /\ table = <<>>
        /\ capacity = 0
        /\ data = <<>>

WideSearch ==
    /\ engine \in Engines
    /\ \E key \in WideKeys : Record("search", key, None, Search(engine, heap, root, key))

WideInsert ==
    /\ engine \in Engines
    /\ \E key \in WideKeys : Record("insert", key, key, Insert(engine, heap, root, key, key))

WideRemove ==
    /\ engine \in Engines
    /\ \E key \in WideKeys : Record("remove", key, None, Remove(engine, heap, root, key))

NextWide == WideSearch \/ WideInsert \/ WideRemove

SpecWide == InitWide /\ [][NextWide]_vars

\* the AVL engine alone, on more keys, each key carrying its own value
InitDeep ==
    \E k0 \in DeepKeys :
        /\ engine = "avl"
        /\ heap = [n \in Ids |-> IF n = 1 THEN TreeNode_new(k0, k0) ELSE FreeCell]
        /\ root = 1
        /\ last = [op |-> "new", key |-> k0, val |-> k0, res |-> None]
        /\ inserted = [k \in AllKeys |-> IF k = k0 THEN k0 ELSE None]
        /\ table = <<>>
        /\ capacity = 0
        /\ data = <<>>

DeepSearch ==
    /\ engine = "avl"
    /\ \E key \in DeepKeys : Record("search", key, None, avl_search(heap, root, key))

DeepInsert ==
    /\ engine = "avl"
    /\ \E key \in DeepKeys : Record("insert", key, key, avl_insert(heap, root, key, key))

DeepRemove ==
    /\ engine = "avl"
    /\ \E key \in DeepKeys : Record("remove", key, None, avl_remove(heap, root, key))

NextDeep == DeepSearch \/ DeepInsert \/ DeepRemove

SpecDeep == InitDeep /\ [][NextDeep]_vars

\* --------------------------------------------- TreeNode taken on its own
NodeKeys == 1..NodeMaxKey

\* the value stored with key k
NodeVal(k) == k + NodeMaxKey

\* the orders in which the keys 1..n can be inserted, n <= NodeMaxKey
InsertOrders ==
    UNION {{s \in [1..n -> 1..n] : \A i, j \in 1..n : s[i] = s[j] => i = j} :
             n \in 1..NodeMaxKey}

RECURSIVE BuildTree(_, _, _)
\* the tree with root cell 1 that grows by attaching the keys of order from
\* position i on, each below the leaf its descent ends at
BuildTree(h, order, i) ==
    IF i > Len(order) THEN h
    ELSE BuildTree(bst_insert(h, 1, order[i], NodeVal(order[i])).heap, order, i + 1)

\* every node of the tree given the height update_height computes bottom-up
WithHeights(h, r) ==
    LET RECURSIVE Ht(_)
        Ht(n) == IF n = NULL THEN 0 ELSE 1 + Max(Ht(h[n].left), Ht(h[n].right))
    IN  [m \in Ids |-> IF m \in Nodes(h, r) THEN [h[m] EXCEPT !.height = Ht(m)] ELSE h[m]]

InitNode ==
    \E order \in InsertOrders :
        /\ engine = "node"
        /\ heap = WithHeights(BuildTree([n \in Ids |-> IF n = 1
                                                        THEN TreeNode_new(order[1], NodeVal(order[1]))
                                                        ELSE FreeCell], order, 2), 1)
        /\ root = 1
        /\ last = [op |-> "new", key |-> NULL, val |-> None, res |-> None]
        /\ inserted = NA
        /\ table = <<>>
        /\ capacity = 0
        /\ data = <<>>

\* a method of TreeNode called on the node in cell n of a tree just built
NodeRecord(op, n, h) ==
    /\ last.op = "new"
    /\ heap' = h
    /\ last' = [op |-> op, key |-> n, val |-> None, res |-> None]
    /\ UNCHANGED <<engine, root, inserted, table, capacity, data>>

NodeRotateLeft ==
    \E n \in Nodes(heap, root) : NodeRecord("rotate_left", n, rotate_left(heap, n))

NodeRotateRight ==
    \E n \in Nodes(heap, root) : NodeRecord("rotate_right", n, rotate_right(heap, n))

NodeRebalance ==
    \E n \in Nodes(heap, root) : NodeRecord("rebalance", n, rebalance(heap, n))

NodeRebalanceLib ==
    \E n \in Nodes(heap, root) : NodeRecord("rebalance_lib", n, rebalance_lib(heap, n))

\* n.rotate_left() followed by n.rotate_right()
NodeLeftRight ==
    \E n \in Nodes(heap, root) :
        NodeRecord("left_right", n, rotate_right(rotate_left(heap, n), n))

\* n.rotate_right() followed by n.rotate_left()
NodeRightLeft ==
    \E n \in Nodes(heap, root) :
        NodeRecord("right_left", n, rotate_left(rotate_right(heap, n), n))

\* BinarySearchTree::remove(k) on the tree; data keeps the keys of the tree the
\* call was made on, in pre-order
NodeBstRemove ==
    \E k \in NodeKeys :
        LET out == bst_remove(heap, root, k)
        IN  /\ last.op = "new"
            /\ heap' = out.heap
            /\ root' = out.root
            /\ last' = [op |-> "bst_remove", key |-> k, val |-> None, res |-> out.res]
            /\ data' = [i \in 1..Len(Preorder(heap, root)) |-> heap[Preorder(heap, root)[i]].key]
            /\ UNCHANGED <<engine, inserted, table, capacity>>

NextNode ==
    \/ NodeRotateLeft
    \/ NodeRotateRight
    \/ NodeRebalance
    \/ NodeRebalanceLib
    \/ NodeBstRemove
    \/ NodeLeftRight
    \/ NodeRightLeft

SpecNode == InitNode /\ [][NextNode]_vars

\* ----------------------------------------------------------- hashmap.rs
HashKeys == 0..MaxHashKey

HashVals == 1..MaxHashVal

\* V::default() of the value type
Default == 0

\* Option<V>: Some(v) and the absent value
Some(v) == <<v>>

Absent == <<>>

\* a slot of the table: None, or Some((k, v))
EmptySlot == <<>>

Entry(k, v) == <<k, v>>

RECURSIVE Xor(_, _)
\* a ^ b on bytes
Xor(a, b) ==
    IF a = 0 THEN b
    ELSE IF b = 0 THEN a
    ELSE (((a % 2) + (b % 2)) % 2) + 2 * Xor(a \div 2, b \div 2)

\* the four bytes of an i32 key handed to Hasher::write, low byte first
KeyBytes(k) == <<k % 256, (k \div 256) % 256, (k \div 65536) % 256, k \div 16777216>>

\* MyHasher::write: the bytes are xored into the front of buffer_array
buffer_array(bytes) ==
    LET seed == <<97, 107, 131, 211, 227, 241, 179, 151>>
    IN  [i \in 1..8 |-> IF i <= Len(bytes) THEN Xor(seed[i], bytes[i]) ELSE seed[i]]

RECURSIVE BufferMod(_, _, _)
\* the u64 copied out of buf[j..8] (low byte first), modulo n
BufferMod(buf, j, n) ==
    IF j > 8 THEN 0
    ELSE (buf[j] + 256 * BufferMod(buf, j + 1, n)) % n

\* (make_hash(&self.hash_builder, &k) % self.len() as u64) as usize
Offset(k, n) == BufferMod(buffer_array(KeyBytes(k)), 1, n)

\* the % of Rust on i64: the sign of the result is the sign of the dividend
Rem(a, n) == IF a >= 0 THEN a % n ELSE -((-a) % n)

\* the two slots probed at step i
PlusIdx(offset, i, n) == Rem(offset + i * i, n)

MinusIdx(offset, i, n) == Rem(Rem(offset - i * i, n) + n, n)

\* self.len(): the length of the table
hm_len(t) == Len(t)

hm_is_empty(t) == Len(t) = 0

\* the table is indexed from 0 in the code and from 1 here
Slot(t, idx) == t[idx + 1]

SetSlot(t, idx, e) == [t EXCEPT ![idx + 1] = e]

\* the result of a call on the map: the table and the value returned
HOut(t, res) == [table |-> t, res |-> res]

\* with_capacity(capacity)
with_capacity(c) == [i \in 1..(c \div 4 + 3) |-> EmptySlot]

RECURSIVE InsertProbe(_, _, _, _, _)
\* the probing loop of insert from step i on
InsertProbe(t, offset, i, k, v) ==
    IF i > Len(t) \div 2 THEN HOut(t, Absent)
    ELSE
        LET p == PlusIdx(offset, i, hm_len(t))
            m == MinusIdx(offset, i, hm_len(t))
        IN  IF Slot(t, p) # EmptySlot /\ Slot(t, p)[1] = k THEN
                HOut(SetSlot(t, p, Entry(k, v)), Some(Slot(t, p)[2]))
            ELSE IF Slot(t, p) = EmptySlot THEN
                HOut(SetSlot(t, p, Entry(k, v)), Absent)
            ELSE IF Slot(t, m) # EmptySlot /\ Slot(t, m)[1] = k THEN
                HOut(SetSlot(t, m, Entry(k, v)), Some(Slot(t, m)[2]))
            ELSE IF Slot(t, m) = EmptySlot THEN
                HOut(SetSlot(t, m, Entry(k, v)), Absent)
            ELSE InsertProbe(t, offset, i + 1, k, v)

hm_insert(t, k, v) ==
    LET offset == Offset(k, hm_len(t))
    IN  IF Slot(t, offset) = EmptySlot
        THEN HOut(SetSlot(t, offset, Entry(k, v)), Absent)
        ELSE InsertProbe(t, offset, 0, k, v)

RECURSIVE RemoveProbe(_, _, _, _)
\* the probing loop of remove from step i on
RemoveProbe(t, offset, i, k) ==
    IF i > Len(t) \div 2 THEN HOut(t, Absent)
    ELSE
        LET p == PlusIdx(offset, i, hm_len(t))
            m == MinusIdx(offset, i, hm_len(t))
        IN  IF Slot(t, p) # EmptySlot /\ Slot(t, p)[1] = k THEN
                \* take(&mut elem_ref.1); self.table[idx].take()
                HOut(SetSlot(t, p, EmptySlot), Some(Slot(t, p)[2]))
            ELSE IF Slot(t, m) # EmptySlot /\ Slot(t, m)[1] = k THEN
                \* take(&mut elem_ref.1) alone: the entry stays, its value is the default
                HOut(SetSlot(t, m, Entry(k, Default)), Some(Slot(t, m)[2]))
            ELSE RemoveProbe(t, offset, i + 1, k)

hm_remove(t, k) == RemoveProbe(t, Offset(k, hm_len(t)), 0, k)

RECURSIVE GetProbe(_, _, _, _)
\* the probing loop of get from step i on
GetProbe(t, offset, i, k) ==
    IF i > Len(t) \div 2 THEN Absent
    ELSE
        LET p == PlusIdx(offset, i, hm_len(t))
            m == MinusIdx(offset, i, hm_len(t))
        IN  IF Slot(t, p) # EmptySlot /\ Slot(t, p)[1] = k THEN Some(Slot(t, p)[2])
            ELSE IF Slot(t, m) # EmptySlot /\ Slot(t, m)[1] = k THEN Some(Slot(t, m)[2])
            ELSE GetProbe(t, offset, i + 1, k)

hm_get(t, k) == GetProbe(t, Offset(k, hm_len(t)), 0, k)

\* the state machine of a HashMap<i32, i32>
InitHash ==
    \E c \in 0..MaxHashCap :
        /\ engine = "hashmap"
        /\ table = with_capacity(c)
        /\ capacity = c
        /\ last = [op |-> "with_capacity", key |-> c, val |-> Default, res |-> Absent]
        /\ heap = [n \in Ids |-> FreeCell]
        /\ root = NULL
        /\ inserted = NA
        /\ data = <<>>

HashRecord(op, key, val, out) ==
    /\ table' = out.table
    /\ last' = [op |-> op, key |-> key, val |-> val, res |-> out.res]
    /\ UNCHANGED <<engine, heap, root, inserted, capacity, data>>

HashInsert ==
    \E k \in HashKeys, v \in HashVals : HashRecord("insert", k, v, hm_insert(table, k, v))

HashRemove ==
    \E k \in HashKeys : HashRecord("remove", k, Default, hm_remove(table, k))

HashGet ==
    \E k \in HashKeys : HashRecord("get", k, Default, HOut(table, hm_get(table, k)))

NextHash == HashInsert \/ HashRemove \/ HashGet

SpecHash == InitHash /\ [][NextHash]_vars

\* a map made by with_capacity(c) and filled with at most c distinct keys,
\* key k carrying the value k + 1
FillKeys == 0..MaxCap

InitFill ==
    \E c \in 0..MaxCap :
        /\ engine = "hashmap"
        /\ table = with_capacity(c)
        /\ capacity = c
        /\ last = [op |-> "with_capacity", key |-> c, val |-> Default, res |-> Absent]
        /\ heap = [n \in Ids |-> FreeCell]
        /\ root = NULL
        /\ inserted = [k \in FillKeys |-> None]
        /\ data = <<>>

FillInsert ==
    \E k \in FillKeys :
        /\ inserted[k] = None
        /\ Cardinality({j \in FillKeys : inserted[j] # None}) < capacity
        /\ table' = hm_insert(table, k, k + 1).table
        /\ last' = [op |-> "insert", key |-> k, val |-> k + 1,
                     res |-> hm_insert(table, k, k + 1).res]
        /\ inserted' = [inserted EXCEPT ![k] = k + 1]
        /\ UNCHANGED <<engine, heap, root, capacity, data>>

NextFill == FillInsert

SpecFill == InitFill /\ [][NextFill]_vars

\* the entries the table holds
Entries(t) == {i \in 1..Len(t) : t[i] # EmptySlot}

\* the keys the table holds
HashKeysOf(t) == {t[i][1] : i \in Entries(t)}

\* -------------------------------------------------------------- heap.rs
Elems == 1..MaxElem

\* the vectors of at most n elements
Vecs(n) == UNION {[1..m -> Elems] : m \in 0..n}

\* seq[i] and seq[i] = x, the code counting from 0
At(seq, i) == seq[i + 1]

Put(seq, i, x) == [seq EXCEPT ![i + 1] = x]

RECURSIVE SiftUpLoop(_, _, _, _)
\* the loop of sift_up and the store that follows it; be_replaced was taken
\* out of data[pos], which holds the default meanwhile
SiftUpLoop(d, start, pos, be_replaced) ==
    IF pos > start THEN
        LET parent == (pos - 1) \div 2
        IN  IF At(d, parent) >= be_replaced THEN Put(d, pos, be_replaced)
            ELSE SiftUpLoop(Put(Put(d, pos, At(d, parent)), parent, Default),
                            start, parent, be_replaced)
    ELSE Put(d, pos, be_replaced)

sift_up(d, start, pos) == SiftUpLoop(Put(d, pos, Default), start, pos, At(d, pos))

RECURSIVE SiftDownLoop(_, _, _, _, _)
\* the loop of sift_down and the store that follows it
SiftDownLoop(seq, pos, lo, hi, be_replaced) ==
    LET left == 2 * (pos - lo) + lo + 1
        right == left + 1
        child == IF right < hi /\ At(seq, left) <= At(seq, right) THEN right ELSE left
    IN  IF left < hi THEN
            IF be_replaced >= At(seq, child) THEN Put(seq, pos, be_replaced)
            ELSE SiftDownLoop(Put(Put(seq, pos, At(seq, child)), child, Default),
                              child, lo, hi, be_replaced)
        ELSE Put(seq, pos, be_replaced)

\* sift_down taking the children of pos as if the heap started at 0
sift_down_from_zero(seq, pos, lo, hi) ==
    SiftDownLoop(Put(seq, pos, Default), pos, 0, hi, At(seq, pos))

\* the free function sift_down(seq, pos, lo, hi)
sift_down(seq, pos, lo, hi) ==
    SiftDownLoop(Put(seq, pos, Default), pos, lo, hi, At(seq, pos))

\* BinaryHeap::sift_down(pos): the heap starts at 0 and ends at len()
heap_sift_down(d, pos) ==
    SiftDownLoop(Put(d, pos, Default), pos, 0, Len(d), At(d, pos))

RECURSIVE RebuildLoop(_, _)
RebuildLoop(d, n) ==
    IF n > 0 THEN RebuildLoop(heap_sift_down(d, n - 1), n - 1) ELSE d

rebuild(d) == RebuildLoop(d, Len(d) \div 2)

\* BinaryHeap::from(vec)
heap_from(vec) == rebuild(vec)

heap_peek(d) == IF Len(d) > 0 THEN Some(At(d, 0)) ELSE Absent

heap_push(d, item) == sift_up(Append(d, item), 0, Len(d))

\* pop without the sift_down of the element moved to the top
heap_pop_no_sift(d) ==
    IF d = <<>> THEN [data |-> d, res |-> Absent]
    ELSE
        LET item == Last(d)
            rest == Front(d)
        IN  IF rest # <<>>
            THEN [data |-> Put(rest, 0, item), res |-> Some(At(rest, 0))]
            ELSE [data |-> rest, res |-> Some(item)]

\* the result of pop: the vector left and the value returned
heap_pop(d) ==
    IF d = <<>> THEN [data |-> d, res |-> Absent]
    ELSE
        LET item == Last(d)
            rest == Front(d)
        IN  IF rest # <<>>
            THEN [data |-> heap_sift_down(Put(rest, 0, item), 0), res |-> Some(At(rest, 0))]
            ELSE [data |-> rest, res |-> Some(item)]

\* the state machine of a BinaryHeap<i32>
InitHeap ==
    \E vec \in Vecs(MaxLen) :
        /\ engine = "heap"
        /\ data = heap_from(vec)
        /\ last = [op |-> "from", key |-> Len(vec), val |-> Default, res |-> Absent]
        /\ heap = [n \in Ids |-> FreeCell]
        /\ root = NULL
        /\ inserted = NA
        /\ table = <<>>
        /\ capacity = 0

HeapRecord(op, key, d, res) ==
    /\ data' = d
    /\ last' = [op |-> op, key |-> key, val |-> Default, res |-> res]
    /\ UNCHANGED <<engine, heap, root, inserted, table, capacity>>

HeapPush ==
    /\ Len(data) < MaxLen
    /\ \E item \in Elems : HeapRecord("push", item, heap_push(data, item), Absent)

HeapPop == HeapRecord("pop", Default, heap_pop(data).data, heap_pop(data).res)

HeapPeek == HeapRecord("peek", Default, data, heap_peek(data))

NextHeap == HeapPush \/ HeapPop \/ HeapPeek

SpecHeap == InitHeap /\ [][NextHeap]_vars

RECURSIVE BuildLoop(_, _, _, _)
\* while n > lo { n -= 1; sift_down(seq, n, lo, hi) }
BuildLoop(seq, n, lo, hi) ==
    IF n > lo THEN BuildLoop(sift_down(seq, n - 1, lo, hi), n - 1, lo, hi) ELSE seq

RECURSIVE SortLoop(_, _, _)
\* while lo < hi { hi -= 1; exchange seq[hi] and seq[lo]; sift_down(seq, lo, lo, hi) }
SortLoop(seq, lo, hi) ==
    IF lo < hi THEN
        LET h1 == hi - 1
            old_hi == At(seq, h1)
            s1 == Put(seq, h1, Default)
            old_lo == At(s1, lo)
            s2 == Put(s1, lo, Default)
            s3 == Put(Put(s2, h1, old_lo), lo, old_hi)
        IN  SortLoop(sift_down(s3, lo, lo, h1), lo, h1)
    ELSE seq

heap_sort(seq, lo, hi) == SortLoop(BuildLoop(seq, (hi - lo) \div 2 + lo, lo, hi), lo, hi)

\* heap_sort applied to a slice and a range lo <= hi <= seq.len(); last keeps
\* the range and the slice as it was
InitSort ==
    \E seq \in Vecs(MaxLen) : \E lo, hi \in 0..Len(seq) :
        /\ lo <= hi
        /\ engine = "heap_sort"
        /\ data = seq
        /\ last = [op |-> "input", key |-> lo, val |-> hi, res |-> seq]
        /\ heap = [n \in Ids |-> FreeCell]
        /\ root = NULL
        /\ inserted = NA
        /\ table = <<>>
        /\ capacity = 0

HeapSort ==
    /\ last.op = "input"
    /\ data' = heap_sort(data, last.key, last.val)
    /\ last' = [last EXCEPT !.op = "heap_sort"]
    /\ UNCHANGED <<engine, heap, root, inserted, table, capacity>>

NextSort == HeapSort

SpecSort == InitSort /\ [][NextSort]_vars

\* the part of seq from index lo up to hi - 1, the code counting from 0
Slice(seq, lo, hi) == SubSeq(seq, lo + 1, hi)

\* the greatest element of a non-empty vector
MaxOf(d) == CHOOSE x \in {d[i] : i \in 1..Len(d)} : \A i \in 1..Len(d) : d[i] <= x

\* how many times x occurs in d
Count(d, x) == Cardinality({i \in 1..Len(d) : d[i] = x})

\* the same elements, each as many times
SameElems(d, e) ==
    /\ Len(d) = Len(e)
    /\ \A x \in Elems \cup {Default} : Count(d, x) = Count(e, x)

RECURSIVE Drain(_)
\* the values pop returns until the heap is empty
Drain(d) ==
    IF d = <<>> THEN <<>>
    ELSE <<heap_pop(d).res[1]>> \o Drain(heap_pop(d).data)

\* ------------------------------------------------- heap.rs: LeftistHeap
\* Option<Box<TreeNode<T>>> is <<>> for None and <<node>> for Some(node)
LeftistElems == (0 - MaxLeftistElem)..MaxLeftistElem

\* TreeNode::new()
leftist_node_new == [elem |-> Default, npl |-> -1, left |-> <<>>, right |-> <<>>]

\* TreeNode::with_elem(elem)
leftist_with_elem(elem) == [elem |-> elem, npl |-> -1, left |-> <<>>, right |-> <<>>]

\* LeftistHeap::new()
leftist_new == <<leftist_node_new>>

RECURSIVE leftist_merge(_, _)
\* LeftistHeap::merge(left_tree, right_tree)
leftist_merge(left_tree, right_tree) ==
    IF left_tree = <<>> THEN right_tree
    ELSE IF right_tree = <<>> THEN left_tree
    ELSE
        LET swapped == left_tree[1].elem < right_tree[1].elem
            lt == IF swapped THEN right_tree ELSE left_tree
            rt == IF swapped THEN left_tree ELSE right_tree
            left_node == lt[1]
            n1 == [left_node EXCEPT !.right = leftist_merge(left_node.right, rt)]
            n2 == IF n1.left = <<>> \/ n1.left[1].npl < n1.right[1].npl
                  THEN [n1 EXCEPT !.left = n1.right, !.right = n1.left]
                  ELSE n1
        IN  <<[n2 EXCEPT !.npl = IF n2.right # <<>> THEN n2.right[1].npl + 1 ELSE 1]>>

leftist_insert(t, elem) == leftist_merge(t, <<leftist_with_elem(elem)>>)

leftist_get(t) == IF t # <<>> THEN Some(t[1].elem) ELSE Absent

\* the result of remove: the heap left and the value returned
leftist_remove(t) ==
    IF t # <<>>
    THEN [data |-> leftist_merge(t[1].left, t[1].right), res |-> Some(t[1].elem)]
    ELSE [data |-> t, res |-> Absent]

\* the bag b with one x more, and with one x less
BagPlus(b, x) == [b EXCEPT ![x] = @ + 1]

BagMinus(b, x) == [b EXCEPT ![x] = @ - 1]

BagSize(b) ==
    LET RECURSIVE Sum(_)
        Sum(S) == IF S = {} THEN 0
                  ELSE LET x == CHOOSE y \in S : TRUE IN b[x] + Sum(S \ {x})
    IN  Sum(LeftistElems)

\* the greatest element of a bag that is not empty
BagMax(b) == CHOOSE x \in LeftistElems : b[x] > 0 /\ \A y \in LeftistElems : b[y] > 0 => y <= x

\* The state machine of a LeftistHeap<i32>: data is the heap, inserted the bag
\* of the elements passed to insert that a remove has not taken yet, a remove
\* taking the greatest of them.
InitLeftist ==
    /\ engine = "leftist"
    /\ data = leftist_new
    /\ last = [op |-> "new", key |-> Default, val |-> Default, res |-> Absent]
    /\ inserted = [x \in LeftistElems |-> 0]
    /\ heap = [n \in Ids |-> FreeCell]
    /\ root = NULL
    /\ table = <<>>
    /\ capacity = 0

LeftistInsert ==
    /\ BagSize(inserted) < MaxLeftistLen
    /\ \E elem \in LeftistElems :
          /\ data' = leftist_insert(data, elem)
          /\ inserted' = BagPlus(inserted, elem)
          /\ last' = [op |-> "insert", key |-> elem, val |-> Default, res |-> Absent]
    /\ UNCHANGED <<engine, heap, root, table, capacity>>

LeftistGet ==
    /\ last' = [op |-> "get", key |-> Default, val |-> Default, res |-> leftist_get(data)]
    /\ UNCHANGED <<engine, heap, root, inserted, table, capacity, data>>

LeftistRemove ==
    /\ data' = leftist_remove(data).data
    /\ inserted' = IF BagSize(inserted) > 0 THEN BagMinus(inserted, BagMax(inserted))
                   ELSE inserted
    /\ last' = [op |-> "remove", key |-> Default, val |-> Default,
                res |-> leftist_remove(data).res]
    /\ UNCHANGED <<engine, heap, root, table, capacity>>

NextLeftist == LeftistInsert \/ LeftistGet \/ LeftistRemove

SpecLeftist == InitLeftist /\ [][NextLeftist]_vars

\* ------------------------------------------------------------ string.rs
Chars == 1..MaxChar

Texts == UNION {[1..n -> Chars] : n \in 0..MaxText}

Patterns == UNION {[1..m -> Chars] : m \in 1..MaxPattern}

RECURSIVE BuildNextLoop(_, _, _, _)
\* the loop of build_next; next, j and t count from 0 as the code does
BuildNextLoop(pattern, next, j, t) ==
    IF j < Len(pattern) - 1 THEN
        IF t < 0 \/ At(pattern, j) = At(pattern, t)
        THEN BuildNextLoop(pattern, Put(next, j + 1, t + 1), j + 1, t + 1)
        ELSE BuildNextLoop(pattern, next, j, At(next, t))
    ELSE next

build_next(pattern) ==
    BuildNextLoop(pattern, Put([x \in 1..Len(pattern) |-> 0], 0, -1), 0, -1)

RECURSIVE KmpLoop(_, _, _, _, _)
\* the loop of kmp_match; yields i and j as the loop leaves them
KmpLoop(text, pattern, next, i, j) ==
    IF j < Len(pattern) /\ i < Len(text) THEN
        IF j < 0 \/ At(text, i) = At(pattern, j)
        THEN KmpLoop(text, pattern, next, i + 1, j + 1)
        ELSE KmpLoop(text, pattern, next, i, At(next, j))
    ELSE [i |-> i, j |-> j]

kmp_match(text, pattern) ==
    LET e == KmpLoop(text, pattern, build_next(pattern), 0, 0)
    IN  IF e.i - e.j = Len(text) THEN Absent ELSE Some(e.i - e.j)

\* kmp_match applied to a text and a non-empty pattern; data is the text and
\* last.key the pattern
InitKmp ==
    \E text \in Texts, pattern \in Patterns :
        /\ engine = "kmp_match"
        /\ data = text
        /\ last = [op |-> "input", key |-> pattern, val |-> Default, res |-> Absent]
        /\ heap = [n \in Ids |-> FreeCell]
        /\ root = NULL
        /\ inserted = NA
        /\ table = <<>>
        /\ capacity = 0

KmpMatch ==
    /\ last.op = "input"
    /\ last' = [last EXCEPT !.op = "kmp_match", !.res = kmp_match(data, last.key)]
    /\ UNCHANGED <<engine, heap, root, inserted, table, capacity, data>>

NextKmp == KmpMatch

SpecKmp == InitKmp /\ [][NextKmp]_vars

\* pattern occurs in text at index i, counted from 0
OccursAt(text, pattern, i) ==
    /\ i + Len(pattern) <= Len(text)
    /\ \A x \in 1..Len(pattern) : text[i + x] = pattern[x]

\* the indices at which pattern occurs in text
Occurrences(text, pattern) == {i \in 0..Len(text) : OccursAt(text, pattern, i)}

\* ------------------------------------------------------------ observations
RECURSIVE KeysOf(_, _)
\* the keys stored in the subtree whose root is n
KeysOf(h, n) ==
    IF n = NULL THEN {}
    ELSE {h[n].key} \cup KeysOf(h, h[n].left) \cup KeysOf(h, h[n].right)

\* the key/value pairs stored in the tree whose root is r
Pairs(h, r) == {<<h[n].key, h[n].val>> : n \in Nodes(h, r)}

RECURSIVE Height(_, _)
\* the actual height of the subtree whose root is n
Height(h, n) ==
    IF n = NULL THEN 0
    ELSE 1 + Max(Height(h, h[n].left), Height(h, h[n].right))

Ordered(h, r) ==
    \A n \in Nodes(h, r) :
        /\ \A k \in KeysOf(h, h[n].left) : k < h[n].key
        /\ \A k \in KeysOf(h, h[n].right) : k > h[n].key

\* the AVL height invariant on actual heights
Balanced(h, r) ==
    \A n \in Nodes(h, r) :
        LET d == Height(h, h[n].left) - Height(h, h[n].right)
        IN  -1 <= d /\ d <= 1

TypeOK ==
    /\ engine \in Engines
    /\ root \in Ids \cup {NULL}
    /\ \A n \in Ids : heap[n].left \in Ids \cup {NULL} /\ heap[n].right \in Ids \cup {NULL}

\* ------------------------------------------------------------------ claims

RemoveThenSearchAbsent ==
    last.op = "remove" =>
        /\ Search(engine, heap, root, last.key).res = None
        /\ Remove(engine, heap, root, last.key).res = None

\* C3: in every engine, remove(k) on a tree that holds k returns the value
\* stored under k and takes out that one key only: the other pairs stay.
RemoveExactlyOne ==
    [][(last'.op = "remove" /\ last'.key \in KeysOf(heap, root)) =>
          /\ <<last'.key, last'.res>> \in Pairs(heap, root)
          /\ Pairs(heap', root') = Pairs(heap, root) \ {<<last'.key, last'.res>>}]_vars

\* C4: in an AVL tree, after every insert and every remove, the actual heights
\* of the two subtrees of every node differ by at most one.
AvlHeightInvariant == engine = "avl" => Balanced(heap, root)

\* C5: in every engine, insert(k, v) on a tree whose root is absent makes the
\* tree a single leaf holding (k, v), which a following search(k) returns.
InsertOnEmpty ==
    [][(root = NULL /\ last'.op = "insert") =>
          /\ root' # NULL
          /\ heap'[root'] = TreeNode_new(last'.key, last'.val)
          /\ Search(engine, heap', root', last'.key).res = last'.val]_vars

\* C6: in every engine, as long as only inserts (and searches) were called
\* since new(k0, v0), search(k) returns the last value inserted for k, and
\* None for a key never inserted.
InsertSearchRoundTrip ==
    inserted # NA =>
        \A k \in Keys : Search(engine, heap, root, k).res = inserted[k]

\* an insert has just been made in a splay tree that holds three keys with
\* two different values, all of them put there by new and insert alone
RoundTripWitness ==
    /\ engine = "splay"
    /\ inserted # NA
    /\ last.op = "insert"
    /\ Cardinality(Nodes(heap, root)) = 3
    /\ Cardinality({k \in Keys : inserted[k] # None}) = 3
    /\ last.val = 2
    /\ \E k \in Keys : inserted[k] = 1

DuplicateInsertOnlyValue ==
    [][(/\ engine \in {"bst", "avl"}
        /\ last'.op = "insert"
        /\ last'.key \in KeysOf(heap, root)) =>
          /\ root' = root
          /\ \A n \in Ids :
                heap'[n] = IF heap[n].key = last'.key /\ n \in Nodes(heap, root)
                           THEN [heap[n] EXCEPT !.val = last'.val]
                           ELSE heap[n]]_vars

AvlInsertOnlyBalanced ==
    (engine = "avl" /\ inserted # NA) =>
        /\ Balanced(heap, root)
        /\ \A k \in DeepKeys : avl_search(heap, root, k).res = inserted[k]

\* inserts alone have built an AVL tree of seven keys whose last insert made
\* the root change its key
AvlInsertOnlyWitness ==
    /\ engine = "avl"
    /\ inserted # NA
    /\ last.op = "insert"
    /\ Cardinality(Nodes(heap, root)) = 7
    /\ Height(heap, root) = 3
    /\ heap[root].key = 4

\* C13: for HashMap, after any sequence of insert and remove calls,
\* insert(k, v) on a map that holds k returns Some(old value) and makes v the
\* value of k, it returns None only when k was not in the map, and the map
\* never holds two entries for the same key.
HashInsertUpdates ==
    /\ \A i, j \in Entries(table) : table[i][1] = table[j][1] => i = j
    /\ \A k \in HashKeys, v \in HashVals :
          LET out == hm_insert(table, k, v)
          IN  /\ k \in HashKeysOf(table) =>
                    /\ out.res # Absent
                    /\ \E i \in Entries(table) : table[i] = Entry(k, out.res[1])
                    /\ hm_get(out.table, k) = Some(v)
              /\ out.res = Absent => k \notin HashKeysOf(table)

\* C14: for HashMap, after remove(k) has returned Some(v), get(k) returns None
\* and a second remove(k) returns None, whichever probe slot the entry was in.
HashRemoveRemoves ==
    (last.op = "remove" /\ last.res # Absent) =>
        /\ hm_get(table, last.key) = Absent
        /\ hm_remove(table, last.key).res = Absent

\* C15: for HashMap, after any sequence of insert and remove calls (none
\* included), len() is the number of entries in the map and is_empty() is true
\* exactly when there is none.
HashLenCountsEntries ==
    engine = "hashmap" =>
        /\ hm_len(table) = Cardinality(Entries(table))
        /\ hm_is_empty(table) <=> Entries(table) = {}

\* C16: a HashMap made by with_capacity(capacity) holds at least capacity
\* elements: as long as no more than capacity distinct keys were inserted, get
\* returns the inserted value of every one of them.
HashHoldsCapacity ==
    (engine = "hashmap" /\ inserted # NA) =>
        \A k \in FillKeys : inserted[k] # None => hm_get(table, k) = Some(inserted[k])

\* C17: for BinaryHeap, after BinaryHeap::from(vec) and any sequence of push
\* and pop, peek returns the greatest element in the heap and pop removes one
\* occurrence of it and returns it, so that successive pops return all the
\* elements in non-increasing order; on the empty heap both return None.
HeapPopsGreatest ==
    engine = "heap" =>
        IF data = <<>> THEN heap_peek(data) = Absent /\ heap_pop(data).res = Absent
        ELSE
            /\ heap_peek(data) = Some(MaxOf(data))
            /\ heap_pop(data).res = Some(MaxOf(data))
            /\ SameElems(Append(heap_pop(data).data, MaxOf(data)), data)
            /\ SameElems(Drain(data), data)
            /\ \A i \in 1..(Len(data) - 1) : Drain(data)[i] >= Drain(data)[i + 1]

\* a pop has just returned the greatest of five elements and left four, among
\* them one more occurrence of it and two other values
HeapPopsGreatestWitness ==
    /\ engine = "heap"
    /\ last.op = "pop"
    /\ last.res # Absent
    /\ Len(data) = 4
    /\ Count(data, last.res[1]) = 1
    /\ Cardinality({data[i] : i \in 1..4}) = 3

\* C18: heap_sort(seq, lo, hi) with lo <= hi <= seq.len() leaves seq[lo..hi)
\* in ascending order, a permutation of what it held, and leaves every
\* element outside [lo, hi) as it was, for any lo.
HeapSortSortsRange ==
    last.op = "heap_sort" =>
        LET lo == last.key
            hi == last.val
            old == last.res
        IN  /\ Len(data) = Len(old)
            /\ \A i \in lo..(hi - 2) : At(data, i) <= At(data, i + 1)
            /\ SameElems(Slice(data, lo, hi), Slice(old, lo, hi))
            /\ \A i \in 0..(Len(old) - 1) : (i < lo \/ i >= hi) => At(data, i) = At(old, i)

\* heap_sort has sorted the last four of five elements, which were not in
\* order and held three different values
HeapSortWitness ==
    /\ last.op = "heap_sort"
    /\ last.key = 1
    /\ last.val = 5
    /\ data # last.res
    /\ Cardinality({data[i] : i \in 2..5}) = 3
    /\ data[1] > data[2]

\* C19: kmp_match(text, pattern) with a non-empty pattern returns Some(i), i
\* being the start index of the first occurrence of pattern in text, and
\* returns None when pattern does not occur in text.
KmpFindsFirst ==
    last.op = "kmp_match" =>
        LET occ == Occurrences(data, last.key)
        IN  IF occ = {} THEN last.res = Absent
            ELSE /\ last.res # Absent
                 /\ last.res[1] \in occ
                 /\ \A i \in occ : last.res[1] <= i

\* C20: in the AVL engine, the fix-up of an insert and of a remove visits,
\* bottom-up, every node from the parent of the slot that was filled or
\* emptied up to the root, the parent of a spliced-out successor and the
\* target node whose key was overwritten included, and recomputes the height
\* and calls rebalance at each.
AvlFixUpVisitsPath ==
    engine = "avl" =>
        \A k \in DeepKeys :
            /\ IsSubSeq(InsertFixPath(heap, root, k), avl_insert_visits(heap, root, k))
            /\ IsSubSeq(RemoveFixPath(heap, root, k), avl_remove_visits(heap, root, k))

\* C21: in an AVL tree, after every insert and every remove, the stored height
\* of every node is 1 + max of the heights of its subtrees, an absent child
\* counting for 0: no stored height is stale.
AvlStoredHeights ==
    engine = "avl" => \A n \in Nodes(heap, root) : heap[n].height = Height(heap, n)

\* C22: rebalance called on a node whose stored heights are accurate, whose
\* two children are balanced and whose balance factor is within -2..2 leaves a balance factor of -1, 0 or 1 at the
\* node: for -2 it rotates the right child right first exactly when that
\* child's balance factor is 1 and then rotates the node left, for 2 it
\* rotates the left child left first exactly when that child's balance factor
\* is -1 and then rotates the node right, and otherwise it changes nothing.
\* This is said of the rebalance of node.rs and of the rebalance of lib.rs.
RebalanceRestores ==
    [][(/\ last'.op \in {"rebalance", "rebalance_lib"}
        /\ balance_factor(heap, last'.key) \in -2..2
        /\ Balanced(heap, heap[last'.key].left)
        /\ Balanced(heap, heap[last'.key].right)) =>
          LET n  == last'.key
              bf == balance_factor(heap, n)
          IN  /\ balance_factor(heap', n) \in {-1, 0, 1}
              /\ Height(heap', heap'[n].left) - Height(heap', heap'[n].right) \in {-1, 0, 1}
              /\ bf = -2 =>
                    heap' = rotate_left(IF balance_factor(heap, heap[n].right) = 1
                                        THEN rotate_right(heap, heap[n].right)
                                        ELSE heap, n)
              /\ bf = 2 =>
                    heap' = rotate_right(IF balance_factor(heap, heap[n].left) = -1
                                         THEN rotate_left(heap, heap[n].left)
                                         ELSE heap, n)
              /\ bf \notin {-2, 2} => heap' = heap]_vars

\* the (key, val) pairs of the subtree of n from left to right
RECURSIVE InOrder(_, _)
InOrder(h, n) ==
    IF n = NULL THEN <<>>
    ELSE InOrder(h, h[n].left) \o <<<<h[n].key, h[n].val>>>> \o InOrder(h, h[n].right)

\* C23: rotate_left on a node n with key a, left subtree A and right child R
\* (key b, subtrees B and C) keeps the cell n where it is and leaves it with
\* b's key and val, as left child the cell R now holding a's key and val with
\* subtrees A and B, and as right subtree C; the height of R is recomputed
\* before that of n; rotate_right is the mirror image. No other cell changes,
\* no subtree is duplicated or dropped and the in-order sequence of pairs is
\* unchanged.
RotationShape ==
    [][/\ (last'.op = "rotate_left" /\ heap[last'.key].right # NULL) =>
            LET n == last'.key
                R == heap[n].right
                A == heap[n].left
                B == heap[R].left
                C == heap[R].right
            IN  /\ heap'[n].key = heap[R].key /\ heap'[n].val = heap[R].val
                /\ heap'[n].left = R /\ heap'[n].right = C
                /\ heap'[R].key = heap[n].key /\ heap'[R].val = heap[n].val
                /\ heap'[R].left = A /\ heap'[R].right = B
                /\ heap'[R].height = 1 + Max(Height(heap, A), Height(heap, B))
                /\ heap'[n].height = 1 + Max(heap'[R].height, Height(heap, C))
                /\ \A m \in Ids \ {n, R} : heap'[m] = heap[m]
                /\ Nodes(heap', root') = Nodes(heap, root)
                /\ Len(Preorder(heap', root')) = Cardinality(Nodes(heap, root))
                /\ InOrder(heap', root') = InOrder(heap, root)
       /\ (last'.op = "rotate_right" /\ heap[last'.key].left # NULL) =>
            LET n == last'.key
                L == heap[n].left
                A == heap[L].left
                B == heap[L].right
                C == heap[n].right
            IN  /\ heap'[n].key = heap[L].key /\ heap'[n].val = heap[L].val
                /\ heap'[n].right = L /\ heap'[n].left = A
                /\ heap'[L].key = heap[n].key /\ heap'[L].val = heap[n].val
                /\ heap'[L].left = B /\ heap'[L].right = C
                /\ heap'[L].height = 1 + Max(Height(heap, B), Height(heap, C))
                /\ heap'[n].height = 1 + Max(Height(heap, A), heap'[L].height)
                /\ \A m \in Ids \ {n, L} : heap'[m] = heap[m]
                /\ Nodes(heap', root') = Nodes(heap, root)
                /\ Len(Preorder(heap', root')) = Cardinality(Nodes(heap, root))
                /\ InOrder(heap', root') = InOrder(heap, root)]_vars

\* a rotate_left has acted on a node whose A, B and C were all non-empty
RotationShapeWitness ==
    /\ engine = "node"
    /\ last.op = "rotate_left"
    /\ heap[last.key].left # NULL
    /\ heap[last.key].right # NULL
    /\ heap[heap[last.key].left].left # NULL
    /\ heap[heap[last.key].left].right # NULL

\* C24: in the unbalanced BST, remove(k) of a node with two children whose
\* right child has a left subtree puts the key and val of the minimum of the
\* right subtree into the target cell, makes that minimum's right subtree the
\* left child of the minimum's parent, frees the minimum's cell and changes
\* no other cell or link; the target cell stays in the tree.
BstRemoveGrafts ==
    [][\A t \in Nodes(heap, root) :
         (/\ last'.op = "bst_remove"
          /\ heap[t].key = last'.key
          /\ heap[t].left # NULL
          /\ heap[t].right # NULL
          /\ heap[heap[t].right].left # NULL) =>
            LET sub == Nodes(heap, heap[t].right)
                m   == CHOOSE x \in sub : \A y \in sub : heap[x].key <= heap[y].key
                p   == CHOOSE x \in sub : heap[x].left = m
            IN  /\ heap'[t] = [heap[t] EXCEPT !.key = heap[m].key, !.val = heap[m].val]
                /\ heap'[p] = [heap[p] EXCEPT !.left = heap[m].right]
                /\ heap'[m] = FreeCell
                /\ \A c \in Ids \ {t, p, m} : heap'[c] = heap[c]
                /\ root' = root
                /\ t \in Nodes(heap', root')
                /\ Nodes(heap', root') = Nodes(heap, root) \ {m}]_vars

\* remove(2) has acted on the tree 2(1, 5(4(3, -), -)): the minimum of the right
\* subtree lay two links below the right child
BstRemoveGraftsWitness ==
    /\ engine = "node"
    /\ last.op = "bst_remove"
    /\ last.key = 2
    /\ data = <<2, 1, 5, 4, 3>>
    /\ heap[root].key = 3

\* C25: in the splay engine, remove(k) of a present key ends with a splay of
\* the place the spliced-out cell was taken from: after the call the root is
\* the cell that was the parent of the spliced-out cell (the parent of the
\* in-order successor when k had a right subtree).
SplayRemoveSplaysParent ==
    [][(/\ engine = "splay"
        /\ last'.op = "remove"
        /\ last'.key \in KeysOf(heap, root)) =>
          LET k   == last'.key
              h1  == searchin(heap, root, k)
              gt  == {x \in Nodes(h1, root) : h1[x].key > k}
          IN  gt # {} =>
                LET s == CHOOSE x \in gt : \A y \in gt : h1[x].key <= h1[y].key
                    p == CHOOSE x \in Nodes(h1, root) : h1[x].left = s \/ h1[x].right = s
                IN  /\ root' # NULL
                    /\ heap'[root'].key = IF h1[p].key = k THEN h1[s].key ELSE h1[p].key]_vars

\* C26: while an AVL fix-up walk or a splay pass runs, every handle left in
\* the ancestor chain refers to a cell that is still a node of the tree (not
\* freed by the deletion nor by a rotation below it) and that is still an
\* ancestor of the node being fixed up.
ChainsStayValid ==
    \A k \in AllKeys :
        /\ engine = "avl" =>
              /\ \A i \in 1..Len(avl_insert_walks(heap, root, k, k)) :
                    WalkValid(avl_insert_walks(heap, root, k, k)[i].heap, root,
                              avl_insert_walks(heap, root, k, k)[i].ptrs)
              /\ \A i \in 1..Len(avl_remove_walks(heap, root, k)) :
                    WalkValid(avl_remove_walks(heap, root, k)[i].heap, root,
                              avl_remove_walks(heap, root, k)[i].ptrs)
        /\ engine = "splay" => searchin_chain_valid(heap, root, k)

\* an AVL tree of three levels whose root has a right child without left
\* child, after a remove that returned a value
ChainsStayValidWitness ==
    /\ engine = "avl"
    /\ last.op = "remove"
    /\ last.res # None
    /\ Height(heap, root) = 3
    /\ heap[root].left # NULL
    /\ heap[root].right # NULL
    /\ heap[heap[root].right].left = NULL

\* C27: in every reachable execution of the AVL and splay engines, rotate_left
\* is invoked only on a node that has a right child and rotate_right only on a
\* node that has a left child, by the rebalance of node.rs and by that of
\* lib.rs, and splay is invoked only with a chain each entry of which is the
\* parent of the next, the splayed node last: no rotation takes its early
\* return.
RotationsAlwaysAct ==
    \A k \in AllKeys :
        /\ engine = "avl" =>
              /\ \A i \in 1..Len(avl_insert_walks(heap, root, k, k)) :
                    LET w == avl_insert_walks(heap, root, k, k)[i]
                    IN  \A j \in 1..Len(WalkRotations(w.heap, w.ptrs)) :
                            RotationActs(WalkRotations(w.heap, w.ptrs)[j])
              /\ \A i \in 1..Len(avl_remove_walks(heap, root, k)) :
                    LET w == avl_remove_walks(heap, root, k)[i]
                    IN  \A j \in 1..Len(WalkRotations(w.heap, w.ptrs)) :
                            RotationActs(WalkRotations(w.heap, w.ptrs)[j])
        /\ engine = "splay" =>
              LET path == Descend(heap, root, k)
              IN  path # <<>> =>
                    /\ ParentChain(heap, path)
                    /\ \A j \in 1..Len(splay_rotations(heap, Last(path), Front(path))) :
                          RotationActs(splay_rotations(heap, Last(path), Front(path))[j])

RotationsUndoEachOther ==
    [][/\ (last'.op = "left_right" /\ heap[last'.key].right # NULL) => heap' = heap
       /\ (last'.op = "right_left" /\ heap[last'.key].left # NULL) => heap' = heap]_vars

\* rotate_left and then rotate_right have acted on a node whose left subtree
\* is lower than the right subtree of its right child
RotationsUndoEachOtherWitness ==
    /\ engine = "node"
    /\ last.op = "left_right"
    /\ heap[last.key].right # NULL
    /\ heap[heap[last.key].right].left # NULL
    /\ Height(heap, heap[last.key].left) < Height(heap, heap[heap[last.key].right].right)

\* C30: for a LeftistHeap made by new() and any sequence of insert and remove,
\* get() returns the greatest element inserted and not yet removed and
\* remove() removes and returns it; when no inserted element remains, and so
\* directly after new(), get() and remove() return None.
LeftistGivesGreatest ==
    engine = "leftist" =>
        IF BagSize(inserted) = 0
        THEN leftist_get(data) = Absent /\ leftist_remove(data).res = Absent
        ELSE /\ leftist_get(data) = Some(BagMax(inserted))
             /\ leftist_remove(data).res = Some(BagMax(inserted))

====
